---- MODULE Spec2Model ----
(***************************************************************************)
(* Plugin runtime of the unify repository: the plugin registry             *)
(* (PluginRegistry), the plugin event bus (PluginEventBus), the state      *)
(* store (PluginStateManager), the lazy loader (lazyLoadPlugin) and the    *)
(* per-section manager component (PluginManager with its ErrorBoundary).   *)
(***************************************************************************)
EXTENDS Integers, Sequences, FiniteSets, TLC

\* ------------------------------------------------------------------ bounds
\* largest value of a descriptor's optional order field
MaxOrder == 2
\* number of subscribe calls made on the event bus in one run
MaxSubs == 3

\* number of publish calls a handler may have suspended below the running one
MaxDepth == 1

\* number of clicks on the counter's buttons in one run
MaxClicks == 2

\* number of lazyLoadPlugin calls that can be in flight together
MaxCallers == 3

\* ------------------------------------------------------------------ inputs
PluginIds == {"A", "B", "C"}

\* PluginRegistry.sections: the predefined valid sections
sections == {"header", "sidebar", "content", "footer"}

\* the section strings callers pass to register: valid ones and one that is not
SectionInputs == sections \cup {"banner"}

\* Plugin.order is optional: <<>> is an absent order, <<n>> the order n
Orders == {<<>>} \cup {<<n>> : n \in 1..MaxOrder}

\* the fields of a Plugin the registry reads or that tell two descriptors apart
Descriptors == [id : PluginIds, section : SectionInputs, order : Orders]

\* event names, handler functions (compared by identity) and payloads
EventNames == {"e1", "e2"}
Handlers == {"h1", "h2"}
Payloads == {"p1", "p2"}

\* Strings that are built from templates are sequences of words, the words
\* standing for the pieces between underscores: <<"plugin", "a", "state">> is
\* "plugin_a_state".  Two such strings are equal exactly when the sequences
\* are.  Plugin ids handed to the state store and carried by state changes:
StoreIds == {<<"counter">>, <<"a", "state">>, <<"state", "a">>}

\* JavaScript values a plugin hands over as its state
Num0 == [type |-> "number", lit |-> "0"]
Num5 == [type |-> "number", lit |-> "5"]
StrEmpty == [type |-> "string", lit |-> ""]
Str5 == [type |-> "string", lit |-> "5"]
Null == [type |-> "null", lit |-> "null"]
Undefined == [type |-> "undefined", lit |-> "undefined"]
Circular == [type |-> "object", lit |-> "circular"]

\* the values JSON can represent, and all values
Serializable == {Num0, Num5, StrEmpty, Str5, Null}
StateValues == Serializable \cup {Undefined, Circular}

\* plugin ids passed to lazyLoadPlugin, and those for which the module
\* ./plugins/<id> exists
ModuleIds == {"counter", "todo-list", "missing"}
ExistingModules == {"counter", "todo-list"}
Callers == 1..MaxCallers

\* the sections for which a PluginManager component is shown
Zones == {"sidebar"}

\* the sections a page with more than one PluginManager shows
ZoneInputs == {"sidebar", "content"}

\* the descriptors the application registers at start-up, in program order
Catalog ==
    <<[id |-> "A", section |-> "sidebar", order |-> <<1>>],
      [id |-> "B", section |-> "sidebar", order |-> <<>>],
      [id |-> "C", section |-> "content", order |-> <<1>>]>>

\* Plugin.lifecycle is optional, and so is each hook: the hooks the
\* descriptor with this id supplies
Lifecycle(id) ==
    CASE id = "A" -> {"onMount", "onUnmount"}
      [] id = "B" -> {}
      [] OTHER -> {"onMount"}

\* the pluginId and state carried by a "plugin:stateChange" event
ChangeIds == {<<"A">>, <<"a", "state">>}
ChangeStates == {Num5, Undefined, Circular}
ChangePayloads == [pluginId : ChangeIds, state : ChangeStates]

VARIABLES
    plugins,    \* PluginRegistry.plugins: the Map's entries in insertion order
    regResult,  \* how the last registry call ended
    events,     \* PluginEventBus.events: event name -> array of handlers
    tokens,     \* the unsubscribe closures returned so far, in call order
    invoked,    \* the closures that have been called at least once
    pub,        \* the publish call in progress: its forEach position
    log,        \* the handler invocations of the publish running or just returned
    busOp,      \* the last completed call on the event bus
    localStorage, \* window.localStorage: key -> stored string
    storeResult, \* how the last PluginStateManager call ended
    calls,      \* the lazyLoadPlugin calls: position and settled result
    fetches,    \* pluginId -> number of import() lookups issued
    mgr,        \* the PluginManager component of each section
    demo,       \* the DemoPage component: its plugins state
    counter,    \* the CounterComponent: its count state and effect
    nest        \* the publish calls suspended inside a handler, outermost first

regVars == <<plugins, regResult>>
busVars == <<events, tokens, invoked, pub, log, busOp>>
storeVars == <<localStorage, storeResult>>
loaderVars == <<calls, fetches>>
pageVars == <<demo, counter>>
vars == <<plugins, regResult, events, tokens, invoked, pub, log, busOp,
          localStorage, storeResult, calls, fetches, mgr, demo, counter, nest>>

\* what a call on one component leaves alone
notRegVars == <<busVars, storeVars, loaderVars, mgr, pageVars, nest>>
notBusVars == <<regVars, storeVars, loaderVars, mgr, pageVars, nest>>
notStoreVars == <<regVars, busVars, loaderVars, mgr, pageVars, nest>>
notLoaderVars == <<regVars, busVars, storeVars, mgr, pageVars, nest>>
\* what the manager component never writes
notMgrVars == <<regVars, loaderVars, storeResult, pageVars, nest>>
\* what the DemoPage component never writes
notDemoVars == <<regVars, busVars, storeVars, loaderVars, mgr, counter, nest>>
\* what the CounterComponent never writes
notCounterVars == <<regVars, storeResult, loaderVars, mgr, demo, nest>>

\* ------------------------------------------------------- Map<string, Plugin>
\* index of key k in the entries of m, 0 when absent
MapIndex(m, k) ==
    IF \E i \in 1..Len(m) : m[i].id = k
    THEN CHOOSE i \in 1..Len(m) : m[i].id = k
    ELSE 0

MapHas(m, k) == MapIndex(m, k) # 0

\* Map.prototype.set: an existing key keeps its position, a new key goes last
MapSet(m, k, v) ==
    IF MapHas(m, k) THEN [m EXCEPT ![MapIndex(m, k)] = v] ELSE Append(m, v)

\* Map.prototype.delete
MapDelete(m, k) == SelectSeq(m, LAMBDA p : p.id # k)

\* ------------------------------------------------------------ PluginRegistry
\* getPlugin(pluginId): <<plugin>> when found, <<>> for undefined
getPlugin(pluginId) ==
    IF MapHas(plugins, pluginId)
    THEN <<plugins[MapIndex(plugins, pluginId)]>>
    ELSE <<>>

getPluginsBySection_All(section) == plugins

\* getPluginsBySection(section): Array.from(values()).filter(...)
getPluginsBySection(section) ==
    SelectSeq(plugins, LAMBDA p : p.section = section)

register_NoSectionCheck(plugin) ==
    /\ plugins' = MapSet(plugins, plugin.id, plugin)
    /\ regResult' = [op |-> "register", outcome |-> "ok",
                     existed |-> MapHas(plugins, plugin.id)]

register_Clobber(plugin) ==
    IF plugin.section \notin sections
    THEN /\ plugins' = plugins
         /\ regResult' = [op |-> "register", outcome |-> "InvalidSection",
                          existed |-> MapHas(plugins, plugin.id)]
    ELSE /\ plugins' = <<plugin>>
         /\ regResult' = [op |-> "register", outcome |-> "ok",
                          existed |-> MapHas(plugins, plugin.id)]

\* register(plugin): throws Error("Invalid section: ...") or sets the entry
register(plugin) ==
    IF plugin.section \notin sections
    THEN /\ plugins' = plugins
         /\ regResult' = [op |-> "register", outcome |-> "InvalidSection",
                          existed |-> MapHas(plugins, plugin.id)]
    ELSE /\ plugins' = MapSet(plugins, plugin.id, plugin)
         /\ regResult' = [op |-> "register", outcome |-> "ok",
                          existed |-> MapHas(plugins, plugin.id)]

\* unregister(pluginId)
unregister(pluginId) ==
    /\ plugins' = MapDelete(plugins, pluginId)
    /\ regResult' = [op |-> "unregister", outcome |-> "ok",
                     existed |-> MapHas(plugins, pluginId)]

Register ==
    (\E plugin \in Descriptors : register(plugin)) /\ UNCHANGED notRegVars

Unregister ==
    (\E pluginId \in PluginIds : unregister(pluginId)) /\ UNCHANGED notRegVars

\* ------------------------------------------------------------ PluginEventBus
\* The bus is called from one JavaScript thread: while publish is inside its
\* forEach no other bus call starts unless a handler makes it.  The handlers
\* here return or raise and make no bus call of their own (as the handlers
\* the repository subscribes: the manager's state writer, the counter reset).
\* Array.prototype.indexOf on the handler array: first position holding the
\* handler function, 0 when it is not there
IndexOf(handlers, handler) ==
    IF \E i \in 1..Len(handlers) : handlers[i].handler = handler
    THEN CHOOSE i \in 1..Len(handlers) :
            /\ handlers[i].handler = handler
            /\ \A j \in 1..(i - 1) : handlers[j].handler # handler
    ELSE 0

\* handlers.splice(index, 1)
Splice(handlers, index) ==
    [i \in 1..(Len(handlers) - 1) |->
        IF i < index THEN handlers[i] ELSE handlers[i + 1]]

\* no publish is running
PubIdle == [running |-> FALSE, event |-> "", data |-> "", k |-> 0, len |-> 0]

\* the record of a completed bus call
BusCall(op, event, handler, token, outcome) ==
    [op |-> op, event |-> event, handler |-> handler, token |-> token,
     outcome |-> outcome]

subscribe_Unshift(event, handler) ==
    /\ ~pub.running
    /\ Len(tokens) < MaxSubs
    /\ LET entry == [handler |-> handler, sub |-> Len(tokens) + 1] IN
       events' = IF event \in DOMAIN events
                 THEN [events EXCEPT ![event] = <<entry>> \o @]
                 ELSE events @@ (event :> <<entry>>)
    /\ tokens' = Append(tokens, [event |-> event, handler |-> handler])
    /\ busOp' = BusCall("subscribe", event, handler, Len(tokens) + 1, "returned")
    /\ UNCHANGED <<invoked, pub, log>>

subscribe_Replay(event, handler) ==
    /\ ~pub.running
    /\ Len(tokens) < MaxSubs
    /\ LET entry == [handler |-> handler, sub |-> Len(tokens) + 1] IN
       /\ events' = IF event \in DOMAIN events
                    THEN [events EXCEPT ![event] = Append(@, entry)]
                    ELSE events @@ (event :> <<entry>>)
       /\ log' = IF Len(log) > 0 /\ tokens[log[1].sub].event = event
                 THEN Append(log, [sub |-> entry.sub, handler |-> handler,
                                   data |-> log[1].data, raised |-> FALSE])
                 ELSE log
    /\ tokens' = Append(tokens, [event |-> event, handler |-> handler])
    /\ busOp' = BusCall("subscribe", event, handler, Len(tokens) + 1, "returned")
    /\ UNCHANGED <<invoked, pub>>

\* subscribe(event, handler): creates the array when the key is missing,
\* pushes the handler, returns the unsubscribe closure
subscribe(event, handler) ==
    /\ ~pub.running
    /\ Len(tokens) < MaxSubs
    /\ LET entry == [handler |-> handler, sub |-> Len(tokens) + 1] IN
       events' = IF event \in DOMAIN events
                 THEN [events EXCEPT ![event] = Append(@, entry)]
                 ELSE events @@ (event :> <<entry>>)
    /\ tokens' = Append(tokens, [event |-> event, handler |-> handler])
    /\ busOp' = BusCall("subscribe", event, handler, Len(tokens) + 1, "returned")
    /\ UNCHANGED <<invoked, pub, log>>

\* the closure returned by the t-th subscribe call: looks the array up again,
\* removes the first occurrence of its handler
unsubscribe(t) ==
    /\ ~pub.running
    /\ LET event == tokens[t].event
           handler == tokens[t].handler
       IN /\ events' =
                IF event \in DOMAIN events /\ IndexOf(events[event], handler) > 0
                THEN [events EXCEPT
                        ![event] = Splice(@, IndexOf(events[event], handler))]
                ELSE events
          /\ busOp' = BusCall("unsubscribe", event, handler, t, "returned")
    /\ invoked' = invoked \cup {t}
    /\ log' = <<>>
    /\ UNCHANGED <<tokens, pub>>

\* publish(event, data), entry: fetches the array; forEach fixes its length
publishStart(event, data) ==
    /\ ~pub.running
    /\ pub' = [running |-> TRUE, event |-> event, data |-> data, k |-> 1,
               len |-> IF event \in DOMAIN events THEN Len(events[event]) ELSE 0]
    /\ log' = <<>>
    /\ UNCHANGED <<events, tokens, invoked, busOp>>

publishStep_NoCatch(raised) ==
    /\ pub.running
    /\ pub.k <= pub.len
    /\ log' = Append(log, [sub |-> events[pub.event][pub.k].sub,
                          handler |-> events[pub.event][pub.k].handler,
                          data |-> pub.data, raised |-> raised])
    /\ IF raised
       THEN /\ pub' = PubIdle
            /\ busOp' = BusCall("publish", pub.event, "", 0, "threw")
       ELSE /\ pub' = [pub EXCEPT !.k = @ + 1]
            /\ UNCHANGED busOp
    /\ UNCHANGED <<events, tokens, invoked>>

\* publish, one forEach iteration: the handler at position k is called with
\* data inside try/catch; it returns or raises, and the loop goes on
publishStep(raised) ==
    /\ pub.running
    /\ pub.k <= pub.len
    /\ log' = Append(log, [sub |-> events[pub.event][pub.k].sub,
                          handler |-> events[pub.event][pub.k].handler,
                          data |-> pub.data, raised |-> raised])
    /\ pub' = [pub EXCEPT !.k = @ + 1]
    /\ UNCHANGED <<events, tokens, invoked, busOp>>

\* publish, exit: forEach is over and publish returns
publishReturn ==
    /\ pub.running
    /\ pub.k > pub.len
    /\ pub' = PubIdle
    /\ busOp' = BusCall("publish", pub.event, "", 0, "returned")
    /\ UNCHANGED <<events, tokens, invoked, log>>

\* clear(event): this.events.delete(event)
clear(event) ==
    /\ ~pub.running
    /\ events' = [e \in DOMAIN events \ {event} |-> events[e]]
    /\ busOp' = BusCall("clear", event, "", 0, "returned")
    /\ log' = <<>>
    /\ UNCHANGED <<tokens, invoked, pub>>

\* clearAll(): this.events.clear()
clearAll ==
    /\ ~pub.running
    /\ events' = [e \in {} |-> <<>>]
    /\ busOp' = BusCall("clearAll", "", "", 0, "returned")
    /\ log' = <<>>
    /\ UNCHANGED <<tokens, invoked, pub>>

Subscribe ==
    (\E event \in EventNames, handler \in Handlers : subscribe(event, handler))
    /\ UNCHANGED notBusVars

Unsubscribe == (\E t \in 1..Len(tokens) : unsubscribe(t)) /\ UNCHANGED notBusVars

PublishStart ==
    (\E event \in EventNames, data \in Payloads : publishStart(event, data))
    /\ UNCHANGED notBusVars

PublishStep == (\E raised \in BOOLEAN : publishStep(raised)) /\ UNCHANGED notBusVars

PublishReturn == publishReturn /\ UNCHANGED notBusVars

Clear == (\E event \in EventNames : clear(event)) /\ UNCHANGED notBusVars

ClearAll == clearAll /\ UNCHANGED notBusVars

\* ------------------------------------------------------------------- JSON
\* A stored string: body between double quotes when quoted, bare otherwise.
Text(quoted, body) == [quoted |-> quoted, body |-> body]

\* JSON.stringify(value): a string, the value undefined, or a TypeError
JSONStringify(value) ==
    CASE value.type = "number" -> [threw |-> FALSE, result |-> <<Text(FALSE, value.lit)>>]
      [] value.type = "string" -> [threw |-> FALSE, result |-> <<Text(TRUE, value.lit)>>]
      [] value.type = "null" -> [threw |-> FALSE, result |-> <<Text(FALSE, "null")>>]
      [] value.type = "undefined" -> [threw |-> FALSE, result |-> <<>>]
      [] OTHER -> [threw |-> TRUE, result |-> <<>>]

\* setItem converts its value argument to a string: undefined is "undefined"
ToStorageString(result) ==
    IF result = <<>> THEN Text(FALSE, "undefined") ELSE result[1]

\* JSON.parse(text): the value, or a SyntaxError
JSONParse(text) ==
    CASE text.quoted -> [threw |-> FALSE, value |-> [type |-> "string", lit |-> text.body]]
      [] ~text.quoted /\ text.body \in {"0", "5"} ->
            [threw |-> FALSE, value |-> [type |-> "number", lit |-> text.body]]
      [] ~text.quoted /\ text.body = "null" -> [threw |-> FALSE, value |-> Null]
      [] OTHER -> [threw |-> TRUE, value |-> Null]

\* a string is truthy unless it is the empty string
Truthy(text) == text.quoted \/ text.body # ""

\* ------------------------------------------------------- PluginStateManager
\* `plugin_${pluginId}_state`
StoreKey(pluginId) == <<"plugin">> \o pluginId \o <<"state">>

\* localStorage.getItem(key): <<string>> when present, <<>> for null
GetItem(ls, key) == IF key \in DOMAIN ls THEN <<ls[key]>> ELSE <<>>

\* localStorage.setItem(key, text)
SetItem(ls, key, text) == [k \in DOMAIN ls \cup {key} |-> IF k = key THEN text ELSE ls[k]]

\* localStorage.removeItem(key)
RemoveItem(ls, key) == [k \in DOMAIN ls \ {key} |-> ls[k]]

\* the record of a completed store call; value: the state passed to save or
\* returned by load; failed: an error was caught and logged
StoreCall(op, pluginId, outcome, value, failed) ==
    [op |-> op, id |-> pluginId, outcome |-> outcome, value |-> value,
     failed |-> failed]

\* saveState(pluginId, state); full: the medium refuses the write (setItem
\* throws, e.g. the quota is exceeded).  Every error ends in the catch block.
saveState(pluginId, state, full) ==
    LET str == JSONStringify(state) IN
    IF str.threw \/ full
    THEN /\ localStorage' = localStorage
         /\ storeResult' = StoreCall("save", pluginId, "returned", state, TRUE)
    ELSE /\ localStorage' =
              SetItem(localStorage, StoreKey(pluginId), ToStorageString(str.result))
         /\ storeResult' = StoreCall("save", pluginId, "returned", state, FALSE)

loadStateResult_NoCatch(ls, pluginId) ==
    LET state == GetItem(ls, StoreKey(pluginId)) IN
    IF state # <<>> /\ Truthy(state[1])
    THEN IF JSONParse(state[1]).threw
         THEN StoreCall("load", pluginId, "threw", Null, TRUE)
         ELSE StoreCall("load", pluginId, "returned", JSONParse(state[1]).value, FALSE)
    ELSE StoreCall("load", pluginId, "returned", Null, FALSE)

loadStateResult_ValueTruthy(ls, pluginId) ==
    LET state == GetItem(ls, StoreKey(pluginId)) IN
    IF state # <<>> /\ Truthy(state[1])
    THEN IF JSONParse(state[1]).threw
         THEN StoreCall("load", pluginId, "returned", Null, TRUE)
         ELSE IF JSONParse(state[1]).value \in {Num0, StrEmpty}
              THEN StoreCall("load", pluginId, "returned", Null, FALSE)
              ELSE StoreCall("load", pluginId, "returned", JSONParse(state[1]).value, FALSE)
    ELSE StoreCall("load", pluginId, "returned", Null, FALSE)

\* loadState(pluginId) on the medium ls: state ? JSON.parse(state) : null,
\* null from the catch block when parsing throws
loadStateResult(ls, pluginId) ==
    LET state == GetItem(ls, StoreKey(pluginId)) IN
    IF state # <<>> /\ Truthy(state[1])
    THEN IF JSONParse(state[1]).threw
         THEN StoreCall("load", pluginId, "returned", Null, TRUE)
         ELSE StoreCall("load", pluginId, "returned", JSONParse(state[1]).value, FALSE)
    ELSE StoreCall("load", pluginId, "returned", Null, FALSE)

\* loadState(pluginId)
loadState(pluginId) ==
    /\ storeResult' = loadStateResult(localStorage, pluginId)
    /\ localStorage' = localStorage

\* clearState(pluginId)
clearState(pluginId) ==
    /\ localStorage' = RemoveItem(localStorage, StoreKey(pluginId))
    /\ storeResult' = StoreCall("clear", pluginId, "returned", Null, FALSE)

\* A restart of the application: PluginStateManager is a class of static
\* methods without fields, so only the medium carries over.
restart ==
    /\ localStorage' = localStorage
    /\ storeResult' = StoreCall("restart", <<>>, "returned", Null, FALSE)

SaveState ==
    (\E pluginId \in StoreIds, state \in StateValues, full \in BOOLEAN :
        saveState(pluginId, state, full))
    /\ UNCHANGED notStoreVars

LoadState == (\E pluginId \in StoreIds : loadState(pluginId)) /\ UNCHANGED notStoreVars

ClearState == (\E pluginId \in StoreIds : clearState(pluginId)) /\ UNCHANGED notStoreVars

Restart == restart /\ UNCHANGED notStoreVars

\* ------------------------------------------------------------ lazyLoadPlugin
\* import(`./plugins/${pluginId}`): the module namespace, or a rejection
ImportModule(pluginId) ==
    IF pluginId \in ExistingModules
    THEN [ok |-> TRUE, module |-> [default |-> <<"component", pluginId>>],
          error |-> <<>>]
    ELSE [ok |-> FALSE, module |-> [default |-> <<>>],
          error |-> <<"cannot find module", pluginId>>]

\* a call that has not been made yet
CallIdle == [pc |-> "idle", id |-> "", outcome |-> "", value |-> <<>>,
             logged |-> FALSE]

\* lazyLoadPlugin(pluginId), up to the await: the call issues its own import()
lazyLoadPlugin(c, pluginId) ==
    /\ calls[c].pc = "idle"
    /\ calls' = [calls EXCEPT ![c] = [CallIdle EXCEPT !.pc = "awaiting",
                                                     !.id = pluginId]]
    /\ fetches' = [fetches EXCEPT ![pluginId] = @ + 1]

lazyLoadSettle_Swallow(c) ==
    /\ calls[c].pc = "awaiting"
    /\ LET plugin == ImportModule(calls[c].id) IN
       calls' = [calls EXCEPT ![c] =
                   IF plugin.ok
                   THEN [@ EXCEPT !.pc = "done", !.outcome = "resolved",
                                  !.value = plugin.module.default]
                   ELSE [@ EXCEPT !.pc = "done", !.outcome = "resolved",
                                  !.value = <<>>, !.logged = TRUE]]
    /\ UNCHANGED fetches

\* lazyLoadPlugin after the await: return plugin.default, or log and rethrow
lazyLoadSettle(c) ==
    /\ calls[c].pc = "awaiting"
    /\ LET plugin == ImportModule(calls[c].id) IN
       calls' = [calls EXCEPT ![c] =
                   IF plugin.ok
                   THEN [@ EXCEPT !.pc = "done", !.outcome = "resolved",
                                  !.value = plugin.module.default]
                   ELSE [@ EXCEPT !.pc = "done", !.outcome = "rejected",
                                  !.value = plugin.error, !.logged = TRUE]]
    /\ UNCHANGED fetches

LazyLoadPlugin ==
    (\E c \in Callers, pluginId \in ModuleIds : lazyLoadPlugin(c, pluginId))
    /\ UNCHANGED notLoaderVars

LazyLoadSettle == (\E c \in Callers : lazyLoadSettle(c)) /\ UNCHANGED notLoaderVars

\* ------------------------------------------------------------- PluginManager
\* `plugin_state_${plugin.id}`: the key the manager reads and writes
ManagerKey(pluginId) == <<"plugin", "state">> \o pluginId

\* a registry id as the word sequence put into a key
IdWords(id) == <<id>>

\* `${plugin.id}:restore`
RestoreEvent(id) ==
    CASE id = "A" -> "A:restore"
      [] id = "B" -> "B:restore"
      [] OTHER -> "C:restore"

StateChangeEvent == "plugin:stateChange"

\* a handler function: each subscribe call site creates a new closure
Closure(kind, owner) == [kind |-> kind, owner |-> owner, n |-> Len(tokens) + 1]

\* a PluginManager that is not mounted; hooks: the lifecycle hooks of its
\* descriptors the component has called, as [id, hook] in call order (no
\* statement of the component calls one)
MgrUnmounted ==
    [pc |-> "unmounted", plugins |-> <<>>, error |-> <<>>, i |-> 0,
     token |-> 0, slots |-> <<>>, restored |-> {}, crashed |-> FALSE,
     hooks |-> <<>>]

\* no effect body is running: JavaScript runs one piece of code at a time
NoEffectRunning == \A z \in ZoneInputs : mgr[z].pc # "loading"

\* ErrorBoundary.getDerivedStateFromError and ErrorBoundary.render: the slot
\* shows the fallback once its child has thrown
ErrorBoundaryRender(hasError) == IF hasError THEN "placeholder" ELSE "mounted"

\* what the manager shows: the whole-zone error box, or the plugin slots
ZoneView(z) == IF mgr[z].error # <<>> THEN <<"error">> ELSE mgr[z].slots

\* mount of <PluginManager section=z>: first render with no plugins, then the
\* effect starts loadPlugins: getPluginsBySection and setPlugins
mount(z) ==
    /\ mgr[z].pc = "unmounted"
    /\ NoEffectRunning
    /\ ~pub.running
    /\ Len(tokens) < MaxSubs
    /\ LET sectionPlugins == getPluginsBySection(z) IN
       mgr' = [mgr EXCEPT ![z] =
                 [MgrUnmounted EXCEPT
                    !.pc = "loading", !.plugins = sectionPlugins, !.i = 1,
                    !.slots = [k \in 1..Len(sectionPlugins) |-> "pending"]]]
    /\ UNCHANGED <<busVars, localStorage>>

\* one iteration of sectionPlugins.forEach in loadPlugins: getItem, and for a
\* non-empty string JSON.parse and publish; an exception leaves the loop
\* for the catch block, which calls setError
restoreStep(z) ==
    /\ mgr[z].pc = "loading"
    /\ ~pub.running
    /\ mgr[z].i <= Len(mgr[z].plugins)
    /\ LET plugin == mgr[z].plugins[mgr[z].i]
           savedState == GetItem(localStorage, ManagerKey(IdWords(plugin.id)))
       IN IF savedState # <<>> /\ Truthy(savedState[1])
          THEN IF JSONParse(savedState[1]).threw
               THEN /\ mgr' = [mgr EXCEPT ![z].error = <<"SyntaxError">>,
                                          ![z].i = Len(mgr[z].plugins) + 1]
                    /\ UNCHANGED busVars
               ELSE /\ publishStart(RestoreEvent(plugin.id),
                                    JSONParse(savedState[1]).value)
                    /\ mgr' = [mgr EXCEPT ![z].i = @ + 1,
                                          ![z].restored = @ \cup {plugin.id}]
          ELSE /\ mgr' = [mgr EXCEPT ![z].i = @ + 1]
               /\ UNCHANGED busVars
    /\ UNCHANGED localStorage

\* the effect after loadPlugins: subscribe to "plugin:stateChange"
effectSubscribe(z) ==
    /\ mgr[z].pc = "loading"
    /\ mgr[z].i > Len(mgr[z].plugins)
    /\ subscribe(StateChangeEvent, Closure("manager", z))
    /\ mgr' = [mgr EXCEPT ![z].pc = "active", ![z].token = Len(tokens) + 1]
    /\ UNCHANGED localStorage

renderSlot_NoBoundary(z, k, throws) ==
    /\ mgr[z].pc = "active"
    /\ NoEffectRunning
    /\ ~pub.running
    /\ mgr[z].error = <<>>
    /\ ~mgr[z].crashed
    /\ k \in 1..Len(mgr[z].slots)
    /\ mgr[z].slots[k] \in {"pending", "mounted"}
    /\ mgr' = IF throws
              THEN [mgr EXCEPT ![z].crashed = TRUE, ![z].slots = <<>>]
              ELSE [mgr EXCEPT ![z].slots[k] = "mounted"]
    /\ UNCHANGED <<busVars, localStorage>>

renderSlot_ResetBus(z, k, throws) ==
    /\ mgr[z].pc = "active"
    /\ NoEffectRunning
    /\ mgr[z].error = <<>>
    /\ ~mgr[z].crashed
    /\ k \in 1..Len(mgr[z].slots)
    /\ mgr[z].slots[k] \in {"pending", "mounted"}
    /\ mgr' = [mgr EXCEPT ![z].slots[k] = ErrorBoundaryRender(throws)]
    /\ IF throws THEN clearAll ELSE ~pub.running /\ UNCHANGED busVars
    /\ UNCHANGED localStorage

\* render of the k-th <ErrorBoundary><PluginComponent /></ErrorBoundary>;
\* throws: the plugin's component throws while rendering
renderSlot(z, k, throws) ==
    /\ mgr[z].pc = "active"
    /\ NoEffectRunning
    /\ ~pub.running
    /\ mgr[z].error = <<>>
    /\ ~mgr[z].crashed
    /\ k \in 1..Len(mgr[z].slots)
    /\ mgr[z].slots[k] \in {"pending", "mounted"}
    /\ mgr' = [mgr EXCEPT ![z].slots[k] = ErrorBoundaryRender(throws)]
    /\ UNCHANGED <<busVars, localStorage>>

unmount_ClearEvent(z) ==
    /\ mgr[z].pc = "active"
    /\ NoEffectRunning
    /\ clear(StateChangeEvent)
    /\ mgr' = [mgr EXCEPT ![z] = MgrUnmounted]
    /\ UNCHANGED localStorage

\* unmount: the effect's cleanup calls the unsubscribe closure
unmount(z) ==
    /\ mgr[z].pc = "active"
    /\ NoEffectRunning
    /\ unsubscribe(mgr[z].token)
    /\ mgr' = [mgr EXCEPT ![z] = [MgrUnmounted EXCEPT !.hooks = mgr[z].hooks]]
    /\ UNCHANGED localStorage

\* the section prop of a mounted PluginManager changes from z to z2: the
\* cleanup of the old effect runs, then the effect runs for the new section;
\* the component's error state is kept
changeSection(z, z2) ==
    /\ z2 # z
    /\ mgr[z].pc = "active"
    /\ mgr[z2].pc = "unmounted"
    /\ NoEffectRunning
    /\ Len(tokens) < MaxSubs
    /\ unsubscribe(mgr[z].token)
    /\ LET sectionPlugins == getPluginsBySection(z2) IN
       mgr' = [mgr EXCEPT
                 ![z] = MgrUnmounted,
                 ![z2] = [MgrUnmounted EXCEPT
                    !.pc = "loading", !.plugins = sectionPlugins, !.i = 1,
                    !.error = mgr[z].error,
                    !.slots = [k \in 1..Len(sectionPlugins) |-> "pending"]]]
    /\ UNCHANGED localStorage

\* a plugin publishes "plugin:stateChange"
publishStateChange(payload) ==
    /\ NoEffectRunning
    /\ publishStart(StateChangeEvent, payload)
    /\ UNCHANGED <<mgr, localStorage>>

\* a plugin widget subscribes to its restore event
widgetSubscribe(id) ==
    /\ NoEffectRunning
    /\ subscribe(RestoreEvent(id), Closure("widget", id))
    /\ UNCHANGED <<mgr, localStorage>>

\* one forEach iteration of publish with the handlers of this application:
\* the manager's handler does localStorage.setItem(key, JSON.stringify(state))
\* and raises when stringify does; a widget's handler returns or raises
deliver(raised) ==
    /\ pub.running
    /\ pub.k <= pub.len
    /\ LET h == events[pub.event][pub.k].handler IN
       IF h.kind = "manager"
       THEN LET str == JSONStringify(pub.data.state) IN
            /\ raised = str.threw
            /\ publishStep(raised)
            /\ localStorage' =
                 IF str.threw THEN localStorage
                 ELSE SetItem(localStorage, ManagerKey(pub.data.pluginId),
                              ToStorageString(str.result))
       ELSE /\ publishStep(raised)
            /\ localStorage' = localStorage
    /\ UNCHANGED mgr

\* the application's start-up registrations
RegisterCatalog ==
    /\ Len(plugins) < Len(Catalog)
    /\ register(Catalog[Len(plugins) + 1])
    /\ NoEffectRunning
    /\ ~pub.running
    /\ UNCHANGED notRegVars

Mount == (\E z \in Zones : mount(z)) /\ UNCHANGED notMgrVars

RestoreStep == (\E z \in Zones : restoreStep(z)) /\ UNCHANGED notMgrVars

EffectSubscribe == (\E z \in Zones : effectSubscribe(z)) /\ UNCHANGED notMgrVars

RenderSlot ==
    (\E z \in Zones, k \in 1..Len(Catalog), throws \in BOOLEAN :
        renderSlot(z, k, throws))
    /\ UNCHANGED notMgrVars

Unmount == (\E z \in Zones : unmount(z)) /\ UNCHANGED notMgrVars

PublishStateChange ==
    (\E payload \in ChangePayloads : publishStateChange(payload))
    /\ UNCHANGED notMgrVars

WidgetSubscribe ==
    (\E id \in PluginIds : widgetSubscribe(id)) /\ UNCHANGED notMgrVars

Deliver == (\E raised \in BOOLEAN : deliver(raised)) /\ UNCHANGED notMgrVars

PublishReturned == publishReturn /\ UNCHANGED <<notMgrVars, mgr, localStorage>>

\* a plugin of the catalogue saves its state through the State Store
pluginSaveState(id, state) ==
    /\ NoEffectRunning
    /\ ~pub.running
    /\ saveState(IdWords(id), state, FALSE)
    /\ UNCHANGED <<busVars, mgr>>

PluginSaveState ==
    (\E id \in {"A"}, state \in {Num5, Null} : pluginSaveState(id, state))
    /\ UNCHANGED <<regVars, loaderVars, pageVars, nest>>

\* ------------------------------------------- PluginEventBus, handlers calling it
\* Handlers that call the bus while publish is inside its forEach.  publish
\* is an ordinary synchronous call: a publish made by a handler runs to its
\* end before that handler returns.
\* no publish is suspended; seq: number of the running publish among those
\* issued since the outermost one started; startSubs: the subscriptions to
\* the outermost publish's event when it started
NestIdle == [stack |-> <<>>, seq |-> 1, issued |-> 1, startSubs |-> {}]

\* the subscriptions held by the array of event
SubsOf(evs, event) ==
    IF event \in DOMAIN evs
    THEN {evs[event][i].sub : i \in 1..Len(evs[event])}
    ELSE {}

\* the events map after subscribe(event, handler): get-or-create, push
PushHandler(evs, event, entry) ==
    IF event \in DOMAIN evs
    THEN [evs EXCEPT ![event] = Append(@, entry)]
    ELSE evs @@ (event :> <<entry>>)

\* the events map after the unsubscribe closure t: indexOf, splice
RemoveHandler(evs, t) ==
    IF tokens[t].event \in DOMAIN evs
          /\ IndexOf(evs[tokens[t].event], tokens[t].handler) > 0
    THEN [evs EXCEPT ![tokens[t].event] =
             Splice(@, IndexOf(evs[tokens[t].event], tokens[t].handler))]
    ELSE evs

\* what a handler does when it is called: it returns, raises, calls an
\* unsubscribe closure, subscribes a handler to the event being delivered, or
\* publishes that event again
HandlerActs ==
    [kind : {"return", "raise"}]
      \cup [kind : {"unsubscribe"}, token : 1..MaxSubs]
      \cup [kind : {"subscribe"}, handler : Handlers]
      \cup [kind : {"publish"}, data : Payloads]

\* publish(event, data) called from outside any handler
outerPublish(event, data) ==
    /\ publishStart(event, data)
    /\ nest' = [NestIdle EXCEPT !.startSubs = SubsOf(events, event)]

\* one forEach iteration: forEach visits index k only if the array still has
\* it; the handler found there is called inside try/catch and does act
invoke(act) ==
    /\ pub.running
    /\ pub.k <= pub.len
    /\ IF pub.k > Len(events[pub.event])
       THEN /\ act.kind = "return"
            /\ pub' = [pub EXCEPT !.k = @ + 1]
            /\ UNCHANGED <<events, tokens, invoked, log, busOp, nest>>
       ELSE /\ log' = Append(log, [sub |-> events[pub.event][pub.k].sub,
                                  handler |-> events[pub.event][pub.k].handler,
                                  data |-> pub.data,
                                  raised |-> act.kind = "raise",
                                  seq |-> nest.seq])
            /\ CASE act.kind = "unsubscribe" ->
                      /\ act.token <= Len(tokens)
                      /\ events' = RemoveHandler(events, act.token)
                      /\ invoked' = invoked \cup {act.token}
                      /\ busOp' = BusCall("unsubscribe", tokens[act.token].event,
                                          tokens[act.token].handler, act.token,
                                          "returned")
                      /\ pub' = [pub EXCEPT !.k = @ + 1]
                      /\ UNCHANGED <<tokens, nest>>
                 [] act.kind = "subscribe" ->
                      /\ Len(tokens) < MaxSubs
                      /\ events' = PushHandler(events, pub.event,
                                      [handler |-> act.handler,
                                       sub |-> Len(tokens) + 1])
                      /\ tokens' = Append(tokens, [event |-> pub.event,
                                                   handler |-> act.handler])
                      /\ busOp' = BusCall("subscribe", pub.event, act.handler,
                                          Len(tokens) + 1, "returned")
                      /\ pub' = [pub EXCEPT !.k = @ + 1]
                      /\ UNCHANGED <<invoked, nest>>
                 [] act.kind = "publish" ->
                      /\ Len(nest.stack) < MaxDepth
                      /\ nest' = [nest EXCEPT
                                    !.stack = Append(@,
                                        [pub |-> [pub EXCEPT !.k = @ + 1],
                                         seq |-> nest.seq]),
                                    !.seq = nest.issued + 1,
                                    !.issued = @ + 1]
                      /\ pub' = [running |-> TRUE, event |-> pub.event,
                                 data |-> act.data, k |-> 1,
                                 len |-> Len(events[pub.event])]
                      /\ UNCHANGED <<events, tokens, invoked, busOp>>
                 [] OTHER ->
                      /\ pub' = [pub EXCEPT !.k = @ + 1]
                      /\ UNCHANGED <<events, tokens, invoked, busOp, nest>>

\* forEach is over: publish returns, to the handler that called it or to the
\* outside caller
publishExit ==
    /\ pub.running
    /\ pub.k > pub.len
    /\ IF nest.stack = <<>>
       THEN /\ publishReturn
            /\ nest' = NestIdle
       ELSE /\ pub' = nest.stack[Len(nest.stack)].pub
            /\ nest' = [nest EXCEPT
                          !.stack = SubSeq(@, 1, Len(@) - 1),
                          !.seq = nest.stack[Len(nest.stack)].seq]
            /\ UNCHANGED <<events, tokens, invoked, log, busOp>>

notNestVars == <<regVars, storeVars, loaderVars, mgr, pageVars>>

\* the event whose handlers call the bus
NestEvent == "e1"

OuterSubscribe ==
    (\E handler \in Handlers : subscribe(NestEvent, handler))
    /\ UNCHANGED notBusVars

OuterPublish ==
    (\E data \in Payloads : outerPublish(NestEvent, data))
    /\ UNCHANGED notNestVars

Invoke == (\E act \in HandlerActs : invoke(act)) /\ UNCHANGED notNestVars

PublishExit == publishExit /\ UNCHANGED notNestVars

\* --------------------------------------------- plugin widgets of a PluginManager
\* A plugin component that follows CounterComponent's pattern with its own
\* restore event: its effect subscribes a handler when the component mounts
\* and its cleanup calls the unsubscribe closure.
\* the tokens of the widgets mounted in zone z
WidgetTokens(z) ==
    {t \in 1..Len(tokens) :
        /\ tokens[t].handler.kind = "widget"
        /\ \E k \in 1..Len(mgr[z].slots) :
              /\ mgr[z].slots[k] = "mounted"
              /\ mgr[z].plugins[k].id = tokens[t].handler.owner
        /\ \E e \in DOMAIN events : \E i \in 1..Len(events[e]) :
              events[e][i].sub = t}

\* the events map after the unsubscribe closures ts have been called
RECURSIVE RemoveHandlers(_, _)
RemoveHandlers(evs, ts) ==
    IF ts = {} THEN evs
    ELSE LET t == CHOOSE u \in ts : \A v \in ts : u <= v
         IN RemoveHandlers(RemoveHandler(evs, t), ts \ {t})

\* the re-render after setPlugins mounts the k-th <PluginComponent />: its
\* effect subscribes the widget's handler to `${plugin.id}:restore`
widgetMount(z, k) ==
    /\ mgr[z].pc = "active"
    /\ NoEffectRunning
    /\ mgr[z].error = <<>>
    /\ k \in 1..Len(mgr[z].slots)
    /\ mgr[z].slots[k] = "pending"
    /\ subscribe(RestoreEvent(mgr[z].plugins[k].id),
                 Closure("widget", mgr[z].plugins[k].id))
    /\ mgr' = [mgr EXCEPT ![z].slots[k] = ErrorBoundaryRender(FALSE)]
    /\ UNCHANGED localStorage

\* unmount of a PluginManager with its widgets: the cleanup of every effect
\* of the tree calls its unsubscribe closure
unmountTree(z) ==
    /\ mgr[z].pc = "active"
    /\ NoEffectRunning
    /\ ~pub.running
    /\ events' = RemoveHandlers(events, WidgetTokens(z) \cup {mgr[z].token})
    /\ invoked' = invoked \cup WidgetTokens(z) \cup {mgr[z].token}
    /\ busOp' = BusCall("unsubscribe", tokens[mgr[z].token].event,
                        tokens[mgr[z].token].handler, mgr[z].token, "returned")
    /\ log' = <<>>
    /\ mgr' = [mgr EXCEPT ![z] = [MgrUnmounted EXCEPT !.hooks = mgr[z].hooks]]
    /\ UNCHANGED <<tokens, pub, localStorage>>

WidgetMount ==
    (\E z \in Zones, k \in 1..Len(Catalog) : widgetMount(z, k))
    /\ UNCHANGED notMgrVars

UnmountTree == (\E z \in Zones : unmountTree(z)) /\ UNCHANGED notMgrVars

\* ------------------------------------------------------------------ DemoPage
\* the page before it is mounted
DemoUnmounted == [mounted |-> FALSE, plugins |-> <<>>, error |-> <<>>]

\* the section argument of handleSettingsChange: undefined, or a string
SectionArgs == {<<>>} \cup {<<section>> : section \in SectionInputs}

\* sections.flatMap(section => pluginRegistry.getPluginsBySection(section))
FlatMapSections ==
    getPluginsBySection("header") \o getPluginsBySection("sidebar")
        \o getPluginsBySection("content") \o getPluginsBySection("footer")

\* first render of DemoPage: the useState initialiser copies the registry's
\* descriptors; the catalogue's plugins have config.enabled = true
demoMount ==
    /\ ~demo.mounted
    /\ demo' = [mounted |-> TRUE, error |-> <<>>,
                plugins |-> [k \in 1..Len(FlatMapSections) |->
                    [id |-> FlatMapSections[k].id,
                     section |-> FlatMapSections[k].section,
                     order |-> FlatMapSections[k].order,
                     enabled |-> TRUE]]]

\* handleSettingsChange(enabled, section, pluginId): maps the page's own
\* copies; section || plugin.section keeps the section when none is given;
\* map does not throw, so the catch block with setError is never entered
handleSettingsChange(enabled, section, pluginId) ==
    /\ demo.mounted
    /\ demo' = [demo EXCEPT !.plugins =
                 [k \in 1..Len(demo.plugins) |->
                    IF demo.plugins[k].id = pluginId
                    THEN [demo.plugins[k] EXCEPT
                            !.enabled = enabled,
                            !.section = IF section # <<>> THEN section[1] ELSE @]
                    ELSE demo.plugins[k]]]

\* DemoPage.getPluginsBySection(section): filter over the page's copies
demoGetPluginsBySection(section) ==
    SelectSeq(demo.plugins, LAMBDA p : p.section = section)

\* the page is unmounted: its state is dropped
demoUnmount ==
    /\ demo.mounted
    /\ demo' = DemoUnmounted

DemoMount == demoMount /\ UNCHANGED notDemoVars

HandleSettingsChange ==
    (\E enabled \in BOOLEAN, section \in SectionArgs, pluginId \in PluginIds :
        handleSettingsChange(enabled, section, pluginId))
    /\ UNCHANGED notDemoVars

DemoUnmount == demoUnmount /\ UNCHANGED notDemoVars

\* ---------------------------------------------------------- CounterComponent
\* 'counter_state' and 'counter:reset'
CounterKey == <<"counter", "state">>
ResetEvent == "counter:reset"

\* the component before it is mounted.  count: the useState value, which is
\* what the component shows; held: the count captured by the closures of the
\* effect that ran last; token: the unsubscribe closure that effect got (0:
\* no effect has run since the mount); pc: "effect" when a render is
\* committed and its effect has not run yet, "stale" when the count has
\* changed and the cleanup of the effect that ran last is due, "idle" when
\* nothing is scheduled; clicks: button clicks so far
CounterUnmounted == [pc |-> "unmounted", count |-> 0, held |-> 0, token |-> 0,
                     clicks |-> 0]

\* count.toString() as the stored string
CountText(n) == Text(FALSE, ToString(n))

\* the counts the component can reach
Counts == (0 - MaxClicks)..MaxClicks

\* parseInt(savedCount, 10) of a string written by count.toString()
ParseInt(text) == CHOOSE n \in Counts : CountText(n) = text

\* what an earlier visit of the page left behind: the cleanup at its unmount
\* stored the count n
counterEarlierVisit(n) ==
    /\ counter.pc = "unmounted"
    /\ counter.clicks = 0
    /\ tokens = <<>>
    /\ ~pub.running
    /\ CounterKey \notin DOMAIN localStorage
    /\ localStorage' = SetItem(localStorage, CounterKey, CountText(n))
    /\ UNCHANGED <<busVars, counter>>

\* mount: useState(0) and the first render
counterMount ==
    /\ counter.pc = "unmounted"
    /\ ~pub.running
    /\ counter' = [CounterUnmounted EXCEPT !.pc = "effect",
                                           !.clicks = counter.clicks]
    /\ UNCHANGED <<busVars, localStorage>>

\* the effect body: getItem, setCount(parseInt(savedCount, 10)) for a
\* non-empty string, subscribe; a setCount with another value than the
\* current one schedules a render, whose changed count makes the cleanup due
counterEffect ==
    /\ counter.pc = "effect"
    /\ LET savedCount == GetItem(localStorage, CounterKey)
           next == IF savedCount # <<>> /\ Truthy(savedCount[1])
                   THEN ParseInt(savedCount[1])
                   ELSE counter.count
       IN /\ subscribe(ResetEvent, Closure("counter", "counter"))
          /\ counter' = [counter EXCEPT
                            !.count = next,
                            !.held = counter.count,
                            !.token = Len(tokens) + 1,
                            !.pc = IF next # counter.count THEN "stale"
                                   ELSE "idle"]
    /\ UNCHANGED localStorage

\* the cleanup before the effect runs again: setItem(count.toString()) with
\* the count the closure holds, unsubscribe()
counterCleanup ==
    /\ counter.pc = "stale"
    /\ unsubscribe(counter.token)
    /\ localStorage' = SetItem(localStorage, CounterKey, CountText(counter.held))
    /\ counter' = [counter EXCEPT !.pc = "effect"]

\* a click on + or -: setCount(prev => prev + delta)
counterClick(delta) ==
    /\ counter.pc = "idle"
    /\ ~pub.running
    /\ counter.clicks < MaxClicks
    /\ counter' = [counter EXCEPT !.count = @ + delta, !.clicks = @ + 1,
                                  !.pc = "stale"]
    /\ UNCHANGED <<busVars, localStorage>>

\* somebody publishes 'counter:reset'
counterPublishReset ==
    /\ counter.pc \in {"idle", "unmounted"}
    /\ publishStart(ResetEvent, Null)
    /\ UNCHANGED <<counter, localStorage>>

\* publish calls the component's handler: setCount(0)
counterDeliver ==
    /\ pub.running
    /\ pub.k <= pub.len
    /\ publishStep(FALSE)
    /\ counter' = [counter EXCEPT
                      !.count = 0,
                      !.pc = IF counter.count # 0 THEN "stale" ELSE @]
    /\ UNCHANGED localStorage

\* unmount: the cleanup of the effect that ran last
counterUnmount ==
    /\ counter.pc = "idle"
    /\ unsubscribe(counter.token)
    /\ localStorage' = SetItem(localStorage, CounterKey, CountText(counter.held))
    /\ counter' = [CounterUnmounted EXCEPT !.clicks = counter.clicks]

CounterEarlierVisit ==
    (\E n \in Counts : counterEarlierVisit(n)) /\ UNCHANGED notCounterVars

CounterMount == counterMount /\ UNCHANGED notCounterVars

CounterEffect == counterEffect /\ UNCHANGED notCounterVars

CounterCleanup == counterCleanup /\ UNCHANGED notCounterVars

CounterClick ==
    (\E delta \in {0 - 1, 1} : counterClick(delta)) /\ UNCHANGED notCounterVars

CounterPublishReset == counterPublishReset /\ UNCHANGED notCounterVars

CounterDeliver == counterDeliver /\ UNCHANGED notCounterVars

CounterPublishReturn ==
    publishReturn /\ UNCHANGED <<notCounterVars, counter, localStorage>>

CounterUnmount == counterUnmount /\ UNCHANGED notCounterVars

Init ==
    /\ plugins = <<>>
    /\ regResult = [op |-> "new", outcome |-> "ok", existed |-> FALSE]
    /\ events = [e \in {} |-> <<>>]
    /\ tokens = <<>>
    /\ invoked = {}
    /\ pub = PubIdle
    /\ log = <<>>
    /\ busOp = BusCall("new", "", "", 0, "returned")
    /\ localStorage = [k \in {} |-> Text(FALSE, "")]
    /\ storeResult = StoreCall("new", <<>>, "returned", Null, FALSE)
    /\ calls = [c \in Callers |-> CallIdle]
    /\ fetches = [pluginId \in ModuleIds |-> 0]
    /\ mgr = [z \in ZoneInputs |-> MgrUnmounted]
    /\ demo = DemoUnmounted
    /\ counter = CounterUnmounted
    /\ nest = NestIdle

NextRegistry == Register \/ Unregister

NextBus ==
    \/ Subscribe
    \/ Unsubscribe
    \/ PublishStart
    \/ PublishStep
    \/ PublishReturn
    \/ Clear
    \/ ClearAll

SpecBus == Init /\ [][NextBus]_vars

NextStore == SaveState \/ LoadState \/ ClearState \/ Restart

SpecStore == Init /\ [][NextStore]_vars

NextLoader == LazyLoadPlugin \/ LazyLoadSettle

SpecLoader == Init /\ [][NextLoader]_vars

NextManager ==
    \/ RegisterCatalog
    \/ Mount
    \/ RestoreStep
    \/ EffectSubscribe
    \/ RenderSlot
    \/ Unmount
    \/ PublishStateChange
    \/ WidgetSubscribe
    \/ Deliver
    \/ PublishReturned

SpecManager == Init /\ [][NextManager]_vars

\* a page showing one PluginManager per section of ZoneInputs
MountZone == (\E z \in ZoneInputs : mount(z)) /\ UNCHANGED notMgrVars

RestoreZone == (\E z \in ZoneInputs : restoreStep(z)) /\ UNCHANGED notMgrVars

SubscribeZone ==
    (\E z \in ZoneInputs : effectSubscribe(z)) /\ UNCHANGED notMgrVars

UnmountZone == (\E z \in ZoneInputs : unmount(z)) /\ UNCHANGED notMgrVars

ChangeSection ==
    (\E z \in ZoneInputs, z2 \in ZoneInputs : changeSection(z, z2))
    /\ UNCHANGED notMgrVars

NextZones ==
    \/ RegisterCatalog
    \/ MountZone
    \/ RestoreZone
    \/ SubscribeZone
    \/ UnmountZone
    \/ ChangeSection
    \/ PublishStateChange
    \/ Deliver
    \/ PublishReturned

SpecZones == Init /\ [][NextZones]_vars

\* activation of a zone whose plugins saved their state through the State Store
NextRestore ==
    \/ RegisterCatalog
    \/ PluginSaveState
    \/ WidgetSubscribe
    \/ Mount
    \/ RestoreStep
    \/ Deliver
    \/ PublishReturned
    \/ EffectSubscribe
    \/ PublishStateChange
    \/ Unmount

SpecRestore == Init /\ [][NextRestore]_vars

\* the demonstration page with its settings panel
NextDemoPage ==
    \/ RegisterCatalog
    \/ DemoMount
    \/ HandleSettingsChange
    \/ DemoUnmount

SpecDemoPage == Init /\ [][NextDemoPage]_vars

\* the bus with handlers that call it
NextCounter ==
    \/ CounterEarlierVisit
    \/ CounterMount
    \/ CounterEffect
    \/ CounterCleanup
    \/ CounterClick
    \/ CounterPublishReset
    \/ CounterDeliver
    \/ CounterPublishReturn
    \/ CounterUnmount

SpecCounter == Init /\ [][NextCounter]_vars

NextWidgets ==
    \/ RegisterCatalog
    \/ Mount
    \/ RestoreStep
    \/ EffectSubscribe
    \/ WidgetMount
    \/ PublishStateChange
    \/ Deliver
    \/ PublishReturned
    \/ UnmountTree

SpecWidgets == Init /\ [][NextWidgets]_vars

NextReentrant ==
    \/ OuterSubscribe
    \/ OuterPublish
    \/ Invoke
    \/ PublishExit

SpecReentrant == Init /\ [][NextReentrant]_vars

Next == NextRegistry \/ NextBus \/ NextStore \/ NextLoader \/ NextManager

Spec == Init /\ [][Next]_vars

SpecRegistry == Init /\ [][NextRegistry]_vars

\* ------------------------------------------------------ registry properties
\* p is placed strictly before q by the order field: an order comes before
\* an absent order, a smaller order before a larger one
OrderStrictlyBefore(p, q) ==
    /\ Len(p.order) = 1
    /\ (Len(q.order) = 0 \/ p.order[1] < q.order[1])

\* the descriptors currently registered, as getPlugin reports them
Registered == {d \in Descriptors : getPlugin(d.id) = <<d>>}

\* C1: for every descriptor D whose id is already registered (with another
\* descriptor), register(D) leaves the registry unchanged, getById(D.id)
\* still returns the descriptor registered before, and (for a D that is
\* otherwise valid) the call fails with DuplicateIdError.
C1_DuplicateRegisterRejected ==
    [][\A D \in Descriptors :
          (MapHas(plugins, D.id) /\ getPlugin(D.id) # <<D>> /\ register(D)) =>
              /\ plugins' = plugins
              /\ getPlugin(D.id)' = getPlugin(D.id)
              /\ (D.section \in sections => regResult'.outcome = "DuplicateId")]_vars

\* C2: getBySection(S) is sorted by the order field ascending, descriptors
\* without an order after all that have one (A (content, order 2) registered
\* before B (content, order 1) gives [B, A]).
C2_SectionSortedByOrder ==
    \A S \in sections :
        LET r == getPluginsBySection(S) IN
        \A i, j \in 1..Len(r) : i < j => ~OrderStrictlyBefore(r[j], r[i])

\* C3: for each of the four sections S, getBySection(S) holds exactly the
\* currently registered descriptors whose section is S, each exactly once,
\* and is the empty sequence when there are none.
C3_SectionExactlyRegistered ==
    \A S \in sections :
        LET r == getPluginsBySection(S) IN
        /\ \A d \in Registered :
              d.section = S => Cardinality({i \in 1..Len(r) : r[i] = d}) = 1
        /\ \A i \in 1..Len(r) : r[i] \in Registered /\ r[i].section = S
        /\ ({d \in Registered : d.section = S} = {} => r = <<>>)

C3_Witness ==
    /\ regResult.op = "unregister"
    /\ regResult.existed
    /\ Len(getPluginsBySection("content")) = 2
    /\ Len(plugins) = 2
    /\ getPluginsBySection("footer") = <<>>

\* C4: register(D) with a section outside the fixed set fails with the
\* invalid-section error and leaves the registry unchanged, and every
\* descriptor the registry holds has a section of the fixed set.
C4_InvalidSectionRejected ==
    /\ [](\A i \in 1..Len(plugins) : plugins[i].section \in sections)
    /\ [][\A D \in Descriptors :
             (D.section \notin sections /\ register(D)) =>
                 /\ plugins' = plugins
                 /\ regResult'.outcome = "InvalidSection"]_vars

C4_Witness ==
    /\ regResult.op = "register"
    /\ regResult.outcome = "InvalidSection"
    /\ Len(plugins) >= 1

\* C5: for a valid descriptor D whose id is not registered, after register(D)
\* getById(D.id) returns D, and getById of every other id is unchanged.
C5_RegisterThenGet ==
    [][\A D \in Descriptors :
          (D.section \in sections /\ ~MapHas(plugins, D.id) /\ register(D)) =>
              /\ getPlugin(D.id)' = <<D>>
              /\ \A other \in PluginIds \ {D.id} :
                    getPlugin(other)' = getPlugin(other)]_vars

C5_Witness ==
    /\ regResult.op = "register"
    /\ regResult.outcome = "ok"
    /\ ~regResult.existed
    /\ Len(plugins) >= 2

\* -------------------------------------------------------------- bus properties
\* forEach has visited every position: publish is about to return, and busOp
\* still holds the call that was made right before this publish
ForEachDone == pub.running /\ pub.k > pub.len

\* publish has just returned: no other bus call was made since
JustPublished == ~pub.running /\ busOp.op = "publish"

\* the handler array of an event, empty when the event has no key
HandlersOf(event) == IF event \in DOMAIN events THEN events[event] ELSE <<>>

\* how many times handler was called with data in the logged publish
Calls(handler, data) ==
    Cardinality({i \in 1..Len(log) :
                    log[i].handler = handler /\ log[i].data = data})

\* C6: subscribe(e, h) followed by publish(e, payload) invokes h with payload
\* exactly once; after the unsubscribe token of (e, h) has been invoked, a
\* following publish(e, payload) does not invoke h.
C6_SubscribePublishOnce ==
    (ForEachDone /\ busOp.event = pub.event) =>
        /\ (busOp.op = "subscribe" => Calls(busOp.handler, pub.data) = 1)
        /\ (busOp.op = "unsubscribe" => Calls(busOp.handler, pub.data) = 0)

\* C7: when a handler raises during publish(e, payload), every handler of e
\* subscribed after it is still invoked, and publish returns normally.
C7_RaiseDoesNotStopLater ==
    JustPublished =>
        /\ busOp.outcome = "returned"
        /\ \A i \in 1..Len(log) :
              log[i].raised =>
                  \A j \in 1..Len(HandlersOf(busOp.event)) :
                      HandlersOf(busOp.event)[j].sub > log[i].sub =>
                          \E k \in (i + 1)..Len(log) :
                              log[k].sub = HandlersOf(busOp.event)[j].sub

C7_Witness ==
    /\ JustPublished
    /\ Len(log) = 3
    /\ log[1].raised
    /\ log[2].raised
    /\ ~log[3].raised

\* the subscriptions (by number of the subscribe call) held in the arrays
ActiveSubs(evs) ==
    UNION {{evs[e][i].sub : i \in 1..Len(evs[e])} : e \in DOMAIN evs}

\* C8: the unsubscribe token of the t-th subscribe call removes exactly that
\* subscription (every other subscription stays, also one of the same
\* handler), and invoking it a second time changes nothing.
C8_TokenRemovesOwnSubscription ==
    [][\A t \in 1..Len(tokens) :
          unsubscribe(t) =>
              /\ ActiveSubs(events) \ {t} \subseteq ActiveSubs(events')
              /\ (t \in invoked => events' = events)]_vars

\* C9: for every event name and handler there is at most one active
\* subscription, and one publish invokes any given handler at most once.
C9_AtMostOneSubscriptionPerHandler ==
    /\ \A e \in DOMAIN events :
          \A i, j \in 1..Len(events[e]) :
              i < j => events[e][i].handler # events[e][j].handler
    /\ \A i, j \in 1..Len(log) : i < j => log[i].handler # log[j].handler

\* C10: publish(e, payload) invokes the handlers held for e, each with
\* payload, in the order of the subscribe calls that added them, whatever
\* subscribe, unsubscribe and clear calls came before.
C10_PublishInSubscriptionOrder ==
    JustPublished =>
        /\ Len(log) = Len(HandlersOf(busOp.event))
        /\ \A i \in 1..Len(log) :
              /\ log[i].sub = HandlersOf(busOp.event)[i].sub
              /\ log[i].handler = tokens[log[i].sub].handler
              /\ tokens[log[i].sub].event = busOp.event
        /\ \A i, j \in 1..Len(log) : i < j => log[i].sub < log[j].sub

C10_Witness ==
    /\ JustPublished
    /\ Len(log) = 2
    /\ log[1].handler # log[2].handler
    /\ invoked # {}
    /\ Cardinality(ActiveSubs(events)) = 2
    /\ Len(tokens) = 3

\* C11: no replay, no buffering: a handler subscribed to e after a
\* publish(e, payload) has completed is not invoked for that publication;
\* whatever calls follow, a handler is invoked only by a forEach step of a
\* running publish, with that publish's payload, and only a handler whose
\* subscribe call was made before.
C11_NoReplay ==
    /\ []((busOp.op = "subscribe" /\ ~pub.running) =>
            \A i \in 1..Len(log) : log[i].sub # busOp.token)
    /\ [][\A i \in 1..Len(log') :
             (i > Len(log) \/ log'[i] # log[i]) =>
                 /\ pub.running
                 /\ pub.k <= pub.len
                 /\ log'[i].data = pub.data
                 /\ log'[i].sub <= Len(tokens)
                 /\ tokens[log'[i].sub].event = pub.event]_vars

C11_Witness ==
    /\ busOp.op = "subscribe"
    /\ ~pub.running
    /\ Len(log) >= 1
    /\ tokens[log[1].sub].event = busOp.event
    /\ busOp.token \in ActiveSubs(events)

\* ------------------------------------------------------------ store properties
\* C12: for every plugin id and serializable state s, save(id, s) (the medium
\* taking the write) followed by load(id) returns a value equal to s, also
\* after a restart over the same medium; clear(id) followed by load(id)
\* returns absent (null).
C12_SaveThenLoad ==
    [][/\ \A id \in StoreIds, s \in Serializable :
            saveState(id, s, FALSE) =>
                /\ loadStateResult(localStorage', id).value = s
                /\ loadStateResult(localStorage', id).outcome = "returned"
       /\ \A id \in StoreIds :
            (storeResult.op = "save" /\ storeResult.id = id /\ ~storeResult.failed
                /\ storeResult.value \in Serializable /\ loadState(id)) =>
                storeResult'.value = storeResult.value
       /\ restart =>
            \A id \in StoreIds :
                loadStateResult(localStorage', id) = loadStateResult(localStorage, id)
       /\ \A id \in StoreIds :
            clearState(id) =>
                loadStateResult(localStorage', id) =
                    StoreCall("load", id, "returned", Null, FALSE)
       /\ \A id \in StoreIds :
            (storeResult.op = "clear" /\ storeResult.id = id /\ loadState(id)) =>
                storeResult'.value = Null]_vars

C12_Witness ==
    /\ storeResult.op = "restart"
    /\ loadStateResult(localStorage, <<"counter">>).value = Num5
    /\ loadStateResult(localStorage, <<"a", "state">>).value = StrEmpty
    /\ loadStateResult(localStorage, <<"state", "a">>).value = Num0

\* C13: when save(pluginId, state) cannot serialize or persist the state, the
\* failure is reported to the caller of save (save raises), and the value
\* stored before for pluginId is unchanged.
C13_SaveFailureReported ==
    [][\A id \in StoreIds, s \in StateValues, full \in BOOLEAN :
          ((JSONStringify(s).threw \/ full) /\ saveState(id, s, full)) =>
              /\ storeResult'.outcome = "threw"
              /\ GetItem(localStorage', StoreKey(id)) =
                    GetItem(localStorage, StoreKey(id))]_vars

C16_OneFetchPerId ==
    /\ \A pluginId \in ModuleIds :
          ((\E c \in Callers : calls[c].pc = "awaiting" /\ calls[c].id = pluginId)
             /\ ~(\E c \in Callers : calls[c].pc = "done" /\ calls[c].id = pluginId))
          => fetches[pluginId] = 1
    /\ \A c1, c2 \in Callers :
          (calls[c1].pc = "done" /\ calls[c2].pc = "done"
             /\ calls[c1].id = calls[c2].id)
          => (calls[c1].outcome = calls[c2].outcome
                /\ calls[c1].value = calls[c2].value)

\* C17: when the module lookup for pluginId fails, the call fails towards
\* its caller with the lookup's error, after logging it; when the lookup
\* succeeds, the call returns the module's default export.
C17_LoadErrorRethrown ==
    \A c \in Callers :
        calls[c].pc = "done" =>
            LET plugin == ImportModule(calls[c].id) IN
            /\ plugin.ok =>
                  (calls[c].outcome = "resolved"
                     /\ calls[c].value = <<"component", calls[c].id>>)
            /\ ~plugin.ok =>
                  (calls[c].outcome = "rejected"
                     /\ calls[c].value = <<"cannot find module", calls[c].id>>
                     /\ calls[c].logged)

C17_Witness ==
    /\ \E c \in Callers : calls[c].pc = "done" /\ calls[c].outcome = "rejected"
    /\ \E c \in Callers : calls[c].pc = "done" /\ calls[c].outcome = "resolved"

\* ---------------------------------------------------------- manager properties
\* the step in which the manager's "plugin:stateChange" handler runs on payload
ManagerForwards(payload) ==
    /\ pub.running
    /\ pub.event = StateChangeEvent
    /\ pub.k <= pub.len
    /\ pub.data = payload
    /\ \E z \in Zones : mgr[z].pc = "active"
    /\ deliver(JSONStringify(payload.state).threw)

AllIds == StoreIds \cup ChangeIds

\* a write or clear made for the plugin id X
WritesFor(X) ==
    \/ \E s \in StateValues, full \in BOOLEAN : saveState(X, s, full)
    \/ clearState(X)
    \/ \E payload \in ChangePayloads :
          payload.pluginId = X /\ ManagerForwards(payload)

\* C15: persisted state is kept under the key plugin_<id>_state, and for two
\* distinct plugin ids a write or clear for one of them, by the State Store or
\* by the manager's stateChange forwarding, never changes what is stored or
\* loaded for the other.
C15_NoCrossPluginCollision ==
    [][\A X \in AllIds :
          WritesFor(X) =>
              /\ \A k \in DOMAIN localStorage \cup DOMAIN localStorage' :
                    GetItem(localStorage', k) # GetItem(localStorage, k) =>
                        k = StoreKey(X)
              /\ \A Y \in AllIds \ {X} :
                    /\ GetItem(localStorage', StoreKey(Y)) =
                          GetItem(localStorage, StoreKey(Y))
                    /\ loadStateResult(localStorage', Y).value =
                          loadStateResult(localStorage, Y).value]_vars

\* C18: when the component of one plugin of a zone throws while it is rendered,
\* the zone shows the failure placeholder in that plugin's slot only, the other
\* plugins of the zone are mounted normally, and the zone as a whole never
\* fails.
C18_PluginFailureIsolated ==
    /\ [](\A z \in Zones :
            /\ ~mgr[z].crashed
            /\ (mgr[z].pc = "active" /\ mgr[z].error = <<>>) =>
                  Len(mgr[z].slots) = Len(mgr[z].plugins))
    /\ [][\A z \in Zones, k \in 1..Len(Catalog) :
            /\ renderSlot(z, k, TRUE) =>
                  /\ ZoneView(z)' = [ZoneView(z) EXCEPT ![k] = "placeholder"]
                  /\ mgr'[z].pc = "active"
            /\ renderSlot(z, k, FALSE) =>
                  ZoneView(z)' = [ZoneView(z) EXCEPT ![k] = "mounted"]]_vars

C18_Witness ==
    /\ mgr["sidebar"].pc = "active"
    /\ Len(mgr["sidebar"].plugins) = 2
    /\ mgr["sidebar"].plugins[1].id = "A"
    /\ ZoneView("sidebar") = <<"placeholder", "mounted">>

\* C19: during zone activation a failure while restoring one descriptor (its
\* saved state cannot be parsed, or its restore handler throws) is caught for
\* that plugin only: the other descriptors of the zone are still restored and
\* the zone does not switch to the whole-zone error.
C19_RestoreFailureIsolated ==
    [][\A z \in Zones :
          effectSubscribe(z) =>
              /\ mgr'[z].error = <<>>
              /\ \A k \in 1..Len(mgr[z].plugins) :
                    LET saved == GetItem(localStorage,
                                     ManagerKey(IdWords(mgr[z].plugins[k].id)))
                    IN (saved # <<>> /\ Truthy(saved[1])
                            /\ ~JSONParse(saved[1]).threw) =>
                          mgr[z].plugins[k].id \in mgr'[z].restored]_vars

\* C20: while a zone is active, a "plugin:stateChange" event {pluginId, state}
\* is forwarded to the State Store's save, so that a following load(pluginId)
\* of the State Store returns state.
C20_StateChangeForwardedToStore ==
    [][\A payload \in ChangePayloads :
          (payload.state \in Serializable /\ ManagerForwards(payload)) =>
              /\ loadStateResult(localStorage', payload.pluginId).value =
                    payload.state
              /\ StoreKey(payload.pluginId) \in DOMAIN localStorage']_vars

\* C21: on activation the manager asks the State Store's load(id) for each
\* descriptor of the zone: when a state was saved for id one "<id>:restore"
\* event carrying the last saved state is published, and none when no state
\* was saved.
C21_RestoreFromStore ==
    [][\A z \in Zones :
          /\ effectSubscribe(z) =>
                \A k \in 1..Len(mgr[z].plugins) :
                    LET id == mgr[z].plugins[k].id IN
                    (GetItem(localStorage, StoreKey(IdWords(id))) # <<>>) <=>
                        (id \in mgr'[z].restored)
          /\ (restoreStep(z) /\ pub'.running) =>
                LET id == mgr[z].plugins[mgr[z].i].id IN
                /\ pub'.event = RestoreEvent(id)
                /\ GetItem(localStorage, StoreKey(IdWords(id))) # <<>>
                /\ pub'.data = loadStateResult(localStorage, IdWords(id)).value]_vars

\* C22: when a zone is deactivated or its section changes, the bus
\* subscription the manager made for it is released, so that a later
\* "plugin:stateChange" causes no write through its handler, and the
\* subscriptions of the zones still active stay in place.
C22_DeactivationReleasesSubscriptions ==
    /\ [](\A e \in DOMAIN events : \A i \in 1..Len(events[e]) :
            events[e][i].handler.kind = "manager" =>
                /\ mgr[events[e][i].handler.owner].pc = "active"
                /\ mgr[events[e][i].handler.owner].token = events[e][i].sub)
    /\ [](\A z \in ZoneInputs :
            mgr[z].pc = "active" => mgr[z].token \in ActiveSubs(events))
    /\ [][localStorage' # localStorage =>
            /\ pub.running
            /\ pub.k <= pub.len
            /\ LET entry == events[pub.event][pub.k] IN
               /\ mgr[entry.handler.owner].pc = "active"
               /\ mgr[entry.handler.owner].token = entry.sub]_vars

C22_Witness ==
    /\ mgr["sidebar"].pc = "unmounted"
    /\ mgr["content"].pc = "active"
    /\ mgr["content"].token = 1
    /\ 2 \in invoked
    /\ Len(log) = 1
    /\ log[1].sub = 1
    /\ ~log[1].raised
    /\ localStorage # << >>

\* the number of times the manager of z has called the hook of descriptor id
HookCalls(m, id, hook) ==
    Cardinality({i \in 1..Len(m.hooks) : m.hooks[i] = [id |-> id, hook |-> hook]})

\* C23: for every descriptor of a zone that supplies lifecycle callbacks the
\* manager calls onMount once when the zone is activated, after the restore
\* step, and onUnmount once when the zone is torn down, never before onMount.
C23_LifecycleHooksInvoked ==
    [][\A z \in Zones :
          /\ effectSubscribe(z) =>
                \A k \in 1..Len(mgr[z].plugins) :
                    "onMount" \in Lifecycle(mgr[z].plugins[k].id) =>
                        HookCalls(mgr'[z], mgr[z].plugins[k].id, "onMount") = 1
          /\ unmount(z) =>
                \A k \in 1..Len(mgr[z].plugins) :
                    "onUnmount" \in Lifecycle(mgr[z].plugins[k].id) =>
                        /\ HookCalls(mgr'[z], mgr[z].plugins[k].id, "onUnmount") = 1
                        /\ HookCalls(mgr[z], mgr[z].plugins[k].id, "onUnmount") = 0
                        /\ HookCalls(mgr[z], mgr[z].plugins[k].id, "onMount") = 1]_vars

\* the subscriptions in evs whose handler does not belong to the plugin id
OthersSubs(evs, id) ==
    UNION {{<<e, evs[e][i]>> :
                i \in {j \in 1..Len(evs[e]) : evs[e][j].handler.owner # id}} :
           e \in DOMAIN evs}

\* the stored strings of ls that do not belong to the plugin id
OthersStored(ls, id) ==
    [key \in DOMAIN ls \ {ManagerKey(IdWords(id)), StoreKey(IdWords(id))} |->
        ls[key]]

\* C25: a runtime failure of one plugin instance (its component throws while
\* rendering, or its bus handler raises) removes no bus subscription of
\* another plugin or of the zone, and modifies or clears no other plugin's
\* persisted state.
C25_FailureLeavesOthersAlone ==
    [][/\ \A z \in Zones, k \in 1..Len(Catalog) :
            renderSlot(z, k, TRUE) =>
                /\ OthersSubs(events', mgr[z].plugins[k].id) =
                      OthersSubs(events, mgr[z].plugins[k].id)
                /\ OthersStored(localStorage', mgr[z].plugins[k].id) =
                      OthersStored(localStorage, mgr[z].plugins[k].id)
                /\ mgr'[z].token = mgr[z].token
                /\ mgr'[z].pc = "active"
       /\ (deliver(TRUE) /\ events[pub.event][pub.k].handler.kind = "widget") =>
                /\ OthersSubs(events', events[pub.event][pub.k].handler.owner) =
                      OthersSubs(events, events[pub.event][pub.k].handler.owner)
                /\ OthersStored(localStorage',
                                events[pub.event][pub.k].handler.owner) =
                      OthersStored(localStorage,
                                   events[pub.event][pub.k].handler.owner)
                /\ mgr' = mgr]_vars

C25_Witness ==
    /\ mgr["sidebar"].pc = "active"
    /\ Len(mgr["sidebar"].slots) = 2
    /\ mgr["sidebar"].plugins[2].id = "B"
    /\ mgr["sidebar"].slots[2] = "placeholder"
    /\ mgr["sidebar"].token \in ActiveSubs(events)
    /\ "A:restore" \in DOMAIN events
    /\ Len(events["A:restore"]) = 1
    /\ ManagerKey(<<"A">>) \in DOMAIN localStorage


\* -------------------------------------------------------------- page properties
\* C24: setSection(id, section) and setConfig(id, config) replace the
\* registered descriptor's section or config, so that afterwards getById(id)
\* and getBySection reflect the new value; they fail with NotFound and change
\* nothing when id is not registered, and setSection fails and leaves the
\* descriptor unchanged when section is outside the fixed set.
C24_AtomicReplace ==
    [][\A enabled \in BOOLEAN, section \in SectionInputs, pluginId \in PluginIds :
          (handleSettingsChange(enabled, <<section>>, pluginId)
                /\ UNCHANGED notDemoVars) =>
              IF getPlugin(pluginId) = <<>> \/ section \notin sections
              THEN /\ demo'.error # <<>>
                   /\ demo'.plugins = demo.plugins
              ELSE /\ demo'.error = <<>>
                   /\ getPlugin(pluginId)[1].section = section
                   /\ \E k \in 1..Len(getPluginsBySection(section)) :
                         getPluginsBySection(section)[k].id = pluginId
                   /\ \E k \in 1..Len(demo'.plugins) :
                         /\ demo'.plugins[k].id = pluginId
                         /\ demo'.plugins[k].section = section
                         /\ demo'.plugins[k].enabled = enabled]_vars


\* ----------------------------------------------------- re-entrant bus properties
\* the log entries of subscription s made by the publication numbered q
Deliveries(s, q) == {i \in 1..Len(log) : log[i].sub = s /\ log[i].seq = q}

\* C26: a subscribe or unsubscribe performed by a handler while publish(e,
\* payload) is iterating does not corrupt the delivery: when the publish
\* returns, every handler that was subscribed to e when it started and is
\* still subscribed has been invoked by it exactly once.
C26_MutationKeepsDelivery ==
    [][(publishExit /\ nest.stack = <<>>) =>
          \A s \in nest.startSubs \cap SubsOf(events, pub.event) :
              Cardinality(Deliveries(s, 1)) = 1]_vars

\* C27: publications are observed in the order they were issued, also when
\* the later one is issued by a handler while the earlier one is being
\* delivered: no subscription is handed a later publication before an
\* earlier one.
C27_PublishOrderObserved ==
    \A i, j \in 1..Len(log) :
        (i < j /\ log[i].sub = log[j].sub) => log[i].seq <= log[j].seq


\* C30: an unsubscribe token never removes a subscription other than its own:
\* when clear(e) or clearAll() has already dropped the subscription of token
\* t (no token of the same event and handler has been invoked) and the same
\* handler has been subscribed again, invoking t leaves every active
\* subscription in place.
C30_StaleTokenKeepsNewSubscription ==
    [][\A t \in 1..Len(tokens) :
          (/\ unsubscribe(t)
           /\ t \notin ActiveSubs(events)
           /\ \A u \in invoked : tokens[u] # tokens[t]) =>
              ActiveSubs(events') = ActiveSubs(events)]_vars


\* ------------------------------------------------------- widget properties
\* C28: the "<id>:restore" event published on zone activation reaches the
\* plugin instance: the restore publication of an activation does not happen
\* before the plugin's widget has mounted and subscribed its handler, so no
\* widget mounts in a zone whose activation has already published its
\* restore event.
C28_RestoreReachesInstance ==
    [][\A z \in Zones, k \in 1..Len(Catalog) :
          widgetMount(z, k) => mgr[z].plugins[k].id \notin mgr[z].restored]_vars


\* ------------------------------------------------------ counter properties
\* C29: after an increment or decrement the Counter component comes to rest
\* showing the previous count plus or minus one: the effect that runs after
\* a count change schedules no further update and does not overwrite the
\* displayed count with an older persisted value, and the value persisted at
\* unmount is the count last displayed.  (A click is possible only when
\* nothing is scheduled, so an effect that runs after a cleanup once a
\* button has been clicked is one that follows a click.)
C29_CounterSettles ==
    /\ [][(counterEffect /\ counter.token # 0 /\ counter.clicks > 0) =>
             /\ counter'.count = counter.count
             /\ counter'.pc = "idle"]_vars
    /\ [][counterUnmount =>
             GetItem(localStorage', CounterKey) =
                 <<CountText(counter.count)>>]_vars

====
